---- MODULE Spec2Model ----
(***************************************************************************)
(* Model of visualization/motion_planning_tasks/src/remote_task_model.cpp: *)
(* RemoteTaskModel (tree of stages, identity registry, solution cache) and *)
(* RemoteSolutionModel (per-stage solution records, sorted/filtered view,  *)
(* persistent-index remap).                                                *)
(*                                                                         *)
(* Handlers are pure operators over records (a model/store in, a result    *)
(* record out); the actions apply them to the state variables.             *)
(***************************************************************************)
EXTENDS Integers, Sequences, FiniteSets, TLC

VARIABLES
    nodes,                \* arena of Node, nodes[root_] is the root
    id_to_stage_,         \* stage id -> Node*
    flags_,               \* model flags (IS_DESTROYED)
    id_to_solution_,      \* solution id -> DisplaySolutionPtr
    get_solution_client_, \* "null" or "set"
    allocated,            \* number of DisplaySolution objects constructed so far
    emitted,              \* signals emitted by the last handler, in order
    aborted,              \* a Q_ASSERT failed / the process crashed
    renamed               \* history: nodes an observer renamed through setData

vars == <<nodes, id_to_stage_, flags_, id_to_solution_, get_solution_client_,
          allocated, emitted, aborted, renamed>>

(***************************************************************************)
(* Bounds of the model.                                                    *)
(***************************************************************************)
MaxCost == 3          \* the one finite cost value pushed by setData
MaxHandles == 1       \* persistent indexes an observer holds on one store

(***************************************************************************)
(* float: NaN and +Infinity are encoded as integers outside the finite     *)
(* range; comparisons follow IEEE (every comparison with NaN is false,     *)
(* NaN != x is true).                                                      *)
(***************************************************************************)
NaN == -1
Infinity == 1000

isnan(c) == c = NaN
isinf(c) == c = Infinity
FloatLess(a, b) == ~isnan(a) /\ ~isnan(b) /\ a < b
FloatNotEqual(a, b) == isnan(a) \/ isnan(b) \/ a # b

SolIds == {10, 20, 30}               \* solution ids of the rank scenarios
StoreIds == {10, 20}                 \* solution ids of the store and the tree
SolNames == <<"", "a">>              \* QString values, in lexicographic order
SortColumns == {0, 1, 2}
SortOrders == {"AscendingOrder", "DescendingOrder"}

Range(s) == {s[i] : i \in DOMAIN s}
SeqsUpTo(S, n) == UNION {[1..k -> S] : k \in 0..n}
NoDup(s) == \A i, j \in DOMAIN s : i # j => s[i] # s[j]
IdLists(S) == {s \in SeqsUpTo(S, Cardinality(S)) : NoDup(s)}

Signal(sig, node, row, c1, c2) ==
    [sig |-> sig, node |-> node, row |-> row, c1 |-> c1, c2 |-> c2]

(***************************************************************************)
(* RemoteSolutionModel                                                     *)
(***************************************************************************)
Data(id, cost, creation_rank, cost_rank) ==
    [id |-> id, cost |-> cost, name |-> "",
     creation_rank |-> creation_rank, cost_rank |-> cost_rank]

RemoteSolutionModel(max_cost) ==
    [data_ |-> <<>>, sorted_ |-> <<>>, sort_column_ |-> -1,
     sort_order_ |-> "AscendingOrder", max_cost_ |-> max_cost,
     persistent |-> <<>>]

\* position of the item with this id in a list of Data, 0 for end()
findById(c, id) ==
    IF \E i \in DOMAIN c : c[i].id = id
    THEN CHOOSE i \in DOMAIN c : c[i].id = id /\ \A j \in 1..(i-1) : c[j].id # id
    ELSE 0

\* position of an id in sorted_ (a list of iterators into data_), 0 for end()
findSorted(sorted, id) ==
    IF \E i \in DOMAIN sorted : sorted[i] = id
    THEN CHOOSE i \in DOMAIN sorted : sorted[i] = id /\ \A j \in 1..(i-1) : sorted[j] # id
    ELSE 0

rowCount(m) == Len(m.sorted_)

isVisible(m, item) == isnan(item.cost) \/ FloatLess(item.cost, m.max_cost_)

\* QString::compare on the names of the model
NameIndex(name) == CHOOSE i \in DOMAIN SolNames : SolNames[i] = name
compare(l, r) ==
    IF NameIndex(l) < NameIndex(r) THEN -1 ELSE IF NameIndex(l) > NameIndex(r) THEN 1 ELSE 0

\* the comparator of sortInternal
sortLess(m, left, right) ==
    LET key == CASE m.sort_column_ = 1 ->
                      IF left.cost_rank < right.cost_rank THEN -1
                      ELSE IF left.cost_rank > right.cost_rank THEN 1 ELSE 0
                 [] m.sort_column_ = 2 -> compare(left.name, right.name)
                 [] OTHER -> 0
        comp == IF key = 0
                THEN (IF left.creation_rank < right.creation_rank THEN -1 ELSE 1)
                ELSE key
    IN  IF m.sort_order_ = "AscendingOrder" THEN comp < 0 ELSE comp >= 0

\* std::sort of a list of iterators (ids) with sortLess: the comparator is a
\* strict total order on distinct records (creation ranks are unique), so the
\* result is the one ordered permutation; built here by insertion.
RECURSIVE insertSorted(_, _, _)
insertSorted(m, s, id) ==
    IF s = <<>> THEN <<id>>
    ELSE IF sortLess(m, m.data_[findById(m.data_, id)], m.data_[findById(m.data_, Head(s))])
         THEN <<id>> \o s
         ELSE <<Head(s)>> \o insertSorted(m, Tail(s), id)

RECURSIVE stdSort(_, _)
stdSort(m, s) ==
    IF s = <<>> THEN <<>>
    ELSE insertSorted(m, stdSort(m, Tail(s)), Head(s))

\* ids of the visible records, in data_ order
RECURSIVE visibleIds(_, _)
visibleIds(m, d) ==
    IF d = <<>> THEN <<>>
    ELSE (IF isVisible(m, Head(d)) THEN <<Head(d).id>> ELSE <<>>) \o visibleIds(m, Tail(d))

remapRow_keepsRow(old_sorted, sorted, old_row) == old_row

\* new row of the persistent index that was at old_row (rows are 0-based)
remapRow(old_sorted, sorted, old_row) ==
    findSorted(sorted, old_sorted[old_row + 1]) - 1

sortInternal(m) ==
    LET old_sorted == m.sorted_
        filtered == visibleIds(m, m.data_)
        sorted == IF m.sort_column_ >= 0 THEN stdSort(m, filtered) ELSE filtered
        remapped == [h \in DOMAIN m.persistent |->
                        IF m.persistent[h].row >= 0
                        THEN [m.persistent[h] EXCEPT
                                 !.row = remapRow(old_sorted, sorted, m.persistent[h].row)]
                        ELSE m.persistent[h]]
    IN  [s |-> [m EXCEPT !.sorted_ = sorted, !.persistent = remapped],
         emitted |-> << Signal("layoutAboutToBeChanged", 0, -1, 0, 0),
                        Signal("changePersistentIndexList", 0, -1, 0, 0),
                        Signal("layoutChanged", 0, -1, 0, 0) >>]

sort(m, column, order) ==
    IF m.sort_column_ = column /\ m.sort_order_ = order
    THEN [s |-> m, emitted |-> <<>>]
    ELSE sortInternal([m EXCEPT !.sort_column_ = column, !.sort_order_ = order])
\* index(row, column) of the table model is valid iff the row is in the view
validIndex(m, row) == row >= 0 /\ row < rowCount(m)

setData(m, id, cost, name) ==
    LET it == findById(m.data_, id)
        found == findSorted(m.sorted_, id)
        row == IF found = 0 THEN -1 ELSE found - 1    \* -1: hidden
        item == m.data_[it]
        costChanged == FloatNotEqual(item.cost, cost)
        nameChanged == item.name # name
        changed == [item EXCEPT !.cost = IF costChanged THEN cost ELSE @,
                                !.name = IF nameChanged THEN name ELSE @]
        tl == IF costChanged THEN 1 ELSE 2
        br == IF nameChanged THEN 2 ELSE 1
    IN  IF it = 0 THEN [s |-> m, emitted |-> <<>>]
        ELSE [s |-> [m EXCEPT !.data_[it] = changed],
              emitted |-> IF (costChanged \/ nameChanged) /\ validIndex(m, row)
                          THEN << Signal("solutionDataChanged", 0, row, tl, br) >>
                          ELSE <<>>]

\* ids paired with their 1-based rank in the list, ordered by id
RECURSIVE insertPair(_, _)
insertPair(s, p) ==
    IF s = <<>> THEN <<p>>
    ELSE IF p[1] < Head(s)[1] THEN <<p>> \o s
         ELSE <<Head(s)>> \o insertPair(Tail(s), p)

RECURSIVE idsByCreation(_, _)
idsByCreation(ids, n) ==
    IF n = 0 THEN <<>>
    ELSE insertPair(idsByCreation(ids, n - 1), <<ids[n], n>>)

updateRank_bothRanks(item, rank) ==
    [item EXCEPT !.cost_rank = rank, !.creation_rank = rank]

\* the update of a known record by processSolutionIDs
updateRank(item, rank) == [item EXCEPT !.cost_rank = rank]

newItem_ranksSwapped(data, id, default_cost, rank) ==
    Data(id, default_cost, rank, 1 + Len(data))

\* the record processSolutionIDs appends for a new id
newItem(data, id, default_cost, rank) == Data(id, default_cost, 1 + Len(data), rank)

\* one iteration of the loop of processSolutionIDs over ids_by_creation.
\* acc = [m, size_changed, failed]. A known id is looked up; an id that is
\* neither beyond data_.back() nor stored fails Q_ASSERT(data_it != end()):
\* acc.failed records it, and the loop goes on as the build without assertions
\* whose write through end() leaves the records as they are.
processPair(acc, p, default_cost) ==
    LET m == acc.m
        data == m.data_
        it == findById(data, p[1])
    IN  IF data = <<>> \/ p[1] > data[Len(data)].id
        THEN LET new == newItem(data, p[1], default_cost, p[2])
             IN  [acc EXCEPT !.m.data_ = Append(data, new),
                             !.size_changed = @ \/ isVisible(m, new)]
        ELSE IF it = 0
        THEN [acc EXCEPT !.failed = TRUE]
        ELSE LET updated == updateRank(data[it], p[2])
             IN  [acc EXCEPT !.m.data_[it] = updated,
                             !.size_changed = @ \/ (isVisible(m, updated) # isVisible(m, data[it]))]

RECURSIVE processPairs(_, _, _)
processPairs(acc, pairs, default_cost) ==
    IF pairs = <<>> THEN acc
    ELSE processPairs(processPair(acc, Head(pairs), default_cost), Tail(pairs), default_cost)

\* result: the store, the signals, the return value, and failed: an assertion
\* failed on the way (s is then the state of the build without assertions)
processSolutionIDs(m, ids, default_cost) ==
    LET acc == processPairs([m |-> m, size_changed |-> FALSE, failed |-> FALSE],
                            idsByCreation(ids, Len(ids)), default_cost)
        sorted == sortInternal(acc.m)
    IN  [s |-> sorted.s, emitted |-> sorted.emitted,
         ret |-> acc.size_changed, failed |-> acc.failed]

(***************************************************************************)
(* RemoteTaskModel::Node                                                   *)
(***************************************************************************)
root_ == 1
nullptr == 0

Node(parent, max_cost) ==
    [parent_ |-> parent, children_ |-> <<>>, name_ |-> "",
     interface_flags_ |-> {}, node_flags_ |-> {},
     solutions_ |-> RemoteSolutionModel(max_cost)]

\* the ceiling of a store after construction
DefaultMaxCost == Infinity

(***************************************************************************)
(* RemoteTaskModel: a model value t is [nodes, id_to_stage_, flags_].      *)
(***************************************************************************)
InterfaceFlags == {"READS_START", "READS_END", "WRITES_NEXT_START", "WRITES_PREV_END"}

TaskModel(n, ids, f) == [nodes |-> n, id_to_stage_ |-> ids, flags_ |-> f]

wasVisited(t, n) == "WAS_VISITED" \in t.nodes[n].node_flags_
nameChanged(t, n) == "NAME_CHANGED" \in t.nodes[n].node_flags_

\* row of the QModelIndex index(n): the position of n in its parent's
\* children_ (0-based), -1 (invalid index) for the root
rowOf(t, n) ==
    IF n = root_ THEN -1
    ELSE LET c == t.nodes[t.nodes[n].parent_].children_
         IN  (CHOOSE row \in DOMAIN c : c[row] = n) - 1

\* signals of the stores carry no node: tag them with the owner of the store
tagged(signals, n) == [i \in DOMAIN signals |-> [signals[i] EXCEPT !.node = n]]

setName_alwaysChanged(node, name) == [node |-> [node EXCEPT !.name_ = name], ret |-> TRUE]

\* Node::setName
setName(node, name) ==
    IF name = node.name_ THEN [node |-> node, ret |-> FALSE]
    ELSE [node |-> [node EXCEPT !.name_ = name], ret |-> TRUE]

\* index(row, column, parent): marks the child as visited
index(t, row, column, p) ==
    IF column < 0 \/ column >= 3 THEN [t |-> t, valid |-> FALSE]
    ELSE IF row < 0 \/ row >= Len(t.nodes[p].children_) THEN [t |-> t, valid |-> FALSE]
    ELSE LET c == t.nodes[p].children_[row + 1]
         IN  [t |-> [t EXCEPT !.nodes[c].node_flags_ = @ \cup {"WAS_VISITED"}],
              valid |-> TRUE]

\* RemoteTaskModel::setData on the index of node n
renameNode(t, n, column, value, role) ==
    IF column # 0 \/ role # "EditRole"
    THEN [t |-> t, emitted |-> <<>>, ret |-> FALSE]
    ELSE [t |-> [t EXCEPT !.nodes[n] =
                    [setName(@, value).node EXCEPT !.node_flags_ = @ \cup {"NAME_CHANGED"}]],
          emitted |-> << Signal("dataChanged", n, rowOf(t, n), 0, 0) >>,
          ret |-> TRUE]

createChild_underRoot(t, parent, id) ==
    [t |-> [t EXCEPT
              !.nodes = Append([@ EXCEPT ![root_].children_ = Append(@, Len(t.nodes) + 1)],
                               Node(parent, DefaultMaxCost)),
              !.id_to_stage_ = [i \in DOMAIN @ \cup {id} |->
                                   IF i = id THEN Len(t.nodes) + 1 ELSE @[i]]],
     emitted |-> <<>>]

\* creation of a node for stage id under parent (lines 228-240)
createChild(t, parent, id) ==
    LET notify == wasVisited(t, parent)
        row == Len(t.nodes[parent].children_)
        n == Len(t.nodes) + 1
    IN  [t |-> [t EXCEPT
                  !.nodes = Append([@ EXCEPT ![parent].children_ = Append(@, n)],
                                   Node(parent, DefaultMaxCost)),
                  !.id_to_stage_ = [i \in DOMAIN @ \cup {id} |->
                                       IF i = id THEN n ELSE @[i]]],
         emitted |-> IF notify
                     THEN << Signal("rowsAboutToBeInserted", parent, row, 0, 0),
                             Signal("rowsInserted", parent, row, 0, 0) >>
                     ELSE <<>>]

describeName_overwrites(t, n, name) == setName(t.nodes[n], name)

\* the name update of processStageDescriptions (lines 245-246)
describeName(t, n, name) ==
    IF ~nameChanged(t, n) THEN setName(t.nodes[n], name)
    ELSE [node |-> t.nodes[n], ret |-> FALSE]

\* the interface flags of a description (lines 248-254)
interfaceFlags(flags) == flags \cap InterfaceFlags

notifyChange_ungated(t, n, changed) ==
    IF changed THEN << Signal("dataChanged", n, rowOf(t, n), 0, 2) >> ELSE <<>>

\* the notification of a description change (lines 257-260)
notifyChange(t, n, changed) ==
    IF changed /\ wasVisited(t, n)
    THEN << Signal("dataChanged", n, rowOf(t, n), 0, 2) >>
    ELSE <<>>

\* one iteration of the loop of processStageDescriptions.
\* acc = [t, emitted, failed]; acc.failed records a failed
\* Q_ASSERT(n->parent_ == parent), and the loop goes on as the build without
\* assertions (QT_NO_DEBUG) does.
describeStage(acc, s) ==
    IF s.parent_id \notin DOMAIN acc.t.id_to_stage_ THEN acc
    ELSE LET parent == acc.t.id_to_stage_[s.parent_id]
             created == IF s.id \notin DOMAIN acc.t.id_to_stage_
                        THEN createChild(acc.t, parent, s.id)
                        ELSE [t |-> acc.t, emitted |-> <<>>]
             t1 == created.t
             n == t1.id_to_stage_[s.id]
             named == describeName(t1, n, s.name)
             flagged == [named.node EXCEPT !.interface_flags_ = interfaceFlags(s.flags)]
             changed == named.ret \/ flagged.interface_flags_ # t1.nodes[n].interface_flags_
             t2 == [t1 EXCEPT !.nodes[n] = flagged]
         IN  [t |-> t2,
              emitted |-> acc.emitted \o created.emitted \o notifyChange(t2, n, changed),
              failed |-> acc.failed \/ t1.nodes[n].parent_ # parent]

RECURSIVE describeStages_stopsAtUnknown(_, _)
describeStages_stopsAtUnknown(acc, msg) ==
    IF msg = <<>> \/ Head(msg).parent_id \notin DOMAIN acc.t.id_to_stage_ THEN acc
    ELSE describeStages_stopsAtUnknown(describeStage(acc, Head(msg)), Tail(msg))

RECURSIVE describeStages(_, _)
describeStages(acc, msg) ==
    IF msg = <<>> THEN acc
    ELSE describeStages(describeStage(acc, Head(msg)), Tail(msg))

markDestroyed_clearsTree(t) ==
    [t |-> [t EXCEPT !.flags_ = @ \cup {"IS_DESTROYED"},
                     !.nodes = << Node(nullptr, DefaultMaxCost) >>,
                     !.id_to_stage_ = [i \in {0} |-> root_]],
     emitted |-> << Signal("dataChanged", nullptr, -1, 0, 0) >>]

\* the end of processStageDescriptions for an empty message (lines 263-266)
markDestroyed(t) ==
    LET first == index(t, 0, 0, root_)
    IN  [t |-> [first.t EXCEPT !.flags_ = @ \cup {"IS_DESTROYED"}],
         emitted |-> IF first.valid
                     THEN << Signal("dataChanged", t.nodes[root_].children_[1], 0, 0, 2) >>
                     ELSE << Signal("dataChanged", nullptr, -1, 0, 0) >>]

processStageDescriptions(t, msg) ==
    LET acc == describeStages([t |-> t, emitted |-> <<>>, failed |-> FALSE], msg)
        destroyed == markDestroyed(acc.t)
    IN  IF msg = <<>>
        THEN [t |-> destroyed.t, emitted |-> acc.emitted \o destroyed.emitted, failed |-> FALSE]
        ELSE acc

\* one iteration of the loop of processStageStatistics.
\* The failed ids are fed only when the solved ids report no change (||).
statStage(acc, s) ==
    IF s.id \notin DOMAIN acc.t.id_to_stage_ THEN acc
    ELSE LET n == acc.t.id_to_stage_[s.id]
             solved == processSolutionIDs(acc.t.nodes[n].solutions_, s.solved, NaN)
             failed == processSolutionIDs(solved.s, s.failed, Infinity)
             changed == solved.ret \/ failed.ret
             last == IF solved.ret THEN solved ELSE failed
             signals == IF solved.ret THEN solved.emitted ELSE solved.emitted \o failed.emitted
         IN  [t |-> [acc.t EXCEPT !.nodes[n].solutions_ = last.s],
              emitted |-> acc.emitted \o tagged(signals, n) \o
                          IF changed /\ wasVisited(acc.t, n)
                          THEN << Signal("dataChanged", n, rowOf(acc.t, n), 1, 2) >>
                          ELSE <<>>,
              failed |-> acc.failed \/ solved.failed \/ (~solved.ret /\ failed.failed)]

RECURSIVE statStages(_, _)
statStages(acc, msg) ==
    IF msg = <<>> THEN acc
    ELSE statStages(statStage(acc, Head(msg)), Tail(msg))

processStageStatistics(t, msg) ==
    statStages([t |-> t, emitted |-> <<>>, failed |-> FALSE], msg)

(***************************************************************************)
(* Solution cache: id_to_solution_ maps a solution id to a DisplaySolution,*)
(* [obj, parent, index]: obj numbers the constructed objects, parent is the*)
(* object a sub trajectory was sliced from (0: built from a message) and   *)
(* index the trajectory index of the slice.                                *)
(***************************************************************************)
DisplaySolution(obj, parent, i) == [obj |-> obj, parent |-> parent, index |-> i]

withEntry(cache, id, s) ==
    [k \in DOMAIN cache \cup {id} |-> IF k = id THEN s ELSE cache[k]]

\* Node::solutions_->setData for the store of a stage, if the stage is known
pushData(acc, stage_id, id, cost, name) ==
    IF stage_id \notin DOMAIN acc.t.id_to_stage_ THEN acc
    ELSE LET n == acc.t.id_to_stage_[stage_id]
             r == setData(acc.t.nodes[n].solutions_, id, cost, name)
         IN  [acc EXCEPT !.t.nodes[n].solutions_ = r.s,
                         !.emitted = @ \o tagged(r.emitted, n)]

RECURSIVE storeSubSolutions(_, _)
storeSubSolutions(acc, subs) ==
    IF subs = <<>> THEN acc
    ELSE storeSubSolutions(pushData(acc, Head(subs).stage_id, Head(subs).id,
                                    Head(subs).cost, ""), Tail(subs))

\* the value of i at line 318 for the k-th entry of msg.sub_trajectory
\* (i is initialised at line 312 and not changed by the loop)
trajectoryIndex(k) == 0

\* line 303
cacheTopLevel(cache, id, s) == withEntry(cache, id, s)

\* one iteration of the loop over msg.sub_trajectory (lines 313-322);
\* acc = [t, cache, allocated, emitted], s the object of the message
subTrajectory(acc, tr, k, s) ==
    IF tr.id = 0 \/ tr.id \in DOMAIN acc.cache THEN acc
    ELSE pushData([acc EXCEPT
                      !.cache = withEntry(@, tr.id,
                                    DisplaySolution(acc.allocated + 1, s, trajectoryIndex(k))),
                      !.allocated = @ + 1],
                  tr.stage_id, tr.id, tr.cost, tr.name)

RECURSIVE subTrajectories(_, _, _, _)
subTrajectories(acc, trs, k, s) ==
    IF k > Len(trs) THEN acc
    ELSE subTrajectories(subTrajectory(acc, trs[k], k, s), trs, k + 1, s)

isTopLevel(msg) ==
    /\ msg.sub_solution # <<>>
    /\ Head(msg.sub_solution).stage_id = 1
    /\ Head(msg.sub_solution).id # 0

\* result: [t, cache, allocated, emitted, ret], ret the object returned
processSolutionMessage(t, cache, alloc, msg) ==
    LET s == alloc + 1
        built == [t |-> t, cache |-> cache, allocated |-> s, emitted |-> <<>>,
                  ret |-> DisplaySolution(s, 0, 0)]
        cached == [built EXCEPT
                      !.cache = cacheTopLevel(cache, Head(msg.sub_solution).id, built.ret)]
    IN  IF ~isTopLevel(msg) THEN built
        ELSE subTrajectories(storeSubSolutions(cached, msg.sub_solution),
                             msg.sub_trajectory, 1, s)

\* an empty DisplaySolutionPtr
NoSolution == DisplaySolution(0, 0, 0)

\* getSolution for the solution id of a row; called is whether the service
\* call succeeds and response what it returns. fetched: the service was called.
getSolution(t, cache, alloc, client, id, called, response) ==
    LET unchanged == [t |-> t, cache |-> cache, allocated |-> alloc, emitted |-> <<>>]
    IN  IF id \in DOMAIN cache
        THEN unchanged @@ [ret |-> cache[id], fetched |-> FALSE]
        ELSE IF client = "set" /\ called
        THEN processSolutionMessage(t, cache, alloc, response) @@ [fetched |-> TRUE]
        ELSE unchanged @@ [ret |-> NoSolution, fetched |-> client = "set"]

(***************************************************************************)
(* State after construction of a RemoteTaskModel.                          *)
(***************************************************************************)
Init ==
    /\ nodes = << Node(nullptr, DefaultMaxCost) >>
    /\ id_to_stage_ = [i \in {0} |-> root_]
    /\ flags_ = {}
    /\ id_to_solution_ = << >>
    /\ get_solution_client_ = "null"
    /\ allocated = 0
    /\ emitted = <<>>
    /\ aborted = FALSE
    /\ renamed = {}

\* a failed Q_ASSERT (or a crash) ends the process: its state is gone
Crash ==
    /\ aborted' = TRUE
    /\ nodes' = << Node(nullptr, DefaultMaxCost) >>
    /\ id_to_stage_' = [i \in {0} |-> root_]
    /\ flags_' = {}
    /\ id_to_solution_' = << >>
    /\ get_solution_client_' = "null"
    /\ allocated' = 0
    /\ emitted' = <<>>
    /\ renamed' = {}

(***************************************************************************)
(* A RemoteSolutionModel driven directly through its public interface: the *)
(* store of the root node.                                                 *)
(***************************************************************************)
store == nodes[root_].solutions_

taskUnchanged == UNCHANGED <<id_to_stage_, flags_, id_to_solution_,
                             get_solution_client_, allocated, renamed>>

SolProcessSolutionIDs(ids, default_cost) ==
    /\ ~aborted
    /\ LET r == processSolutionIDs(store, ids, default_cost)
       IN  \/ r.failed /\ Crash
           \/ /\ nodes' = [nodes EXCEPT ![root_].solutions_ = r.s]
              /\ emitted' = r.emitted
              /\ UNCHANGED aborted
              /\ taskUnchanged

SolSetData(id, cost, name) ==
    /\ ~aborted
    /\ LET r == setData(store, id, cost, name)
       IN  /\ nodes' = [nodes EXCEPT ![root_].solutions_ = r.s]
           /\ emitted' = r.emitted
    /\ UNCHANGED aborted
    /\ taskUnchanged

SolSort(column, order) ==
    /\ ~aborted
    /\ LET r == sort(store, column, order)
       IN  /\ nodes' = [nodes EXCEPT ![root_].solutions_ = r.s]
           /\ emitted' = r.emitted
    /\ UNCHANGED aborted
    /\ taskUnchanged

\* an observer takes a QPersistentModelIndex on a row of the view
persistentIndex(m, row, column) ==
    [m EXCEPT !.persistent = Append(@, [row |-> row, column |-> column])]

SolPersistentIndex(row, column) ==
    /\ ~aborted
    /\ Len(store.persistent) < MaxHandles
    /\ validIndex(store, row)
    /\ nodes' = [nodes EXCEPT ![root_].solutions_ = persistentIndex(store, row, column)]
    /\ emitted' = <<>>
    /\ UNCHANGED aborted
    /\ taskUnchanged

NextStore ==
    \/ \E ids \in IdLists(StoreIds), c \in {NaN, Infinity} : SolProcessSolutionIDs(ids, c)
    \/ \E id \in StoreIds, c \in {MaxCost, Infinity}, n \in Range(SolNames) :
          SolSetData(id, c, n)
    \/ \E column \in SortColumns, order \in SortOrders : SolSort(column, order)
    \/ \E row \in 0..(Cardinality(StoreIds) - 1) : SolPersistentIndex(row, 0)

SpecStore == Init /\ [][NextStore]_vars

\* the rank scenarios: one store fed with id lists only
NextRank ==
    \E ids \in IdLists(SolIds), c \in {NaN, Infinity} : SolProcessSolutionIDs(ids, c)

SpecRank == Init /\ [][NextRank]_vars

(***************************************************************************)
(* The RemoteTaskModel driven by its observer and by the description and   *)
(* statistics feeds.                                                       *)
(***************************************************************************)
model == TaskModel(nodes, id_to_stage_, flags_)

setModel(t) ==
    /\ nodes' = t.nodes
    /\ id_to_stage_' = t.id_to_stage_
    /\ flags_' = t.flags_

cacheUnchanged == UNCHANGED <<id_to_solution_, get_solution_client_, allocated>>

\* an observer holds a valid index of n only if it got one from index()
reachedByObserver(n) == n \in DOMAIN nodes /\ (n = root_ \/ wasVisited(model, n))

Index(p, row, column) ==
    /\ ~aborted
    /\ reachedByObserver(p)
    /\ LET r == index(model, row, column, p)
       IN  r.valid /\ setModel(r.t)
    /\ emitted' = <<>>
    /\ UNCHANGED <<aborted, renamed>>
    /\ cacheUnchanged

SetData(n, column, value, role) ==
    /\ ~aborted
    /\ reachedByObserver(n)
    /\ LET r == renameNode(model, n, column, value, role)
       IN  /\ setModel(r.t)
           /\ emitted' = r.emitted
           /\ renamed' = IF r.ret THEN renamed \cup {n} ELSE renamed
    /\ UNCHANGED aborted
    /\ cacheUnchanged

ProcessStageDescriptions(msg) ==
    /\ ~aborted
    /\ LET r == processStageDescriptions(model, msg)
       IN  \/ r.failed /\ Crash
           \/ /\ setModel(r.t)
              /\ emitted' = r.emitted
              /\ UNCHANGED <<aborted, renamed>>
              /\ cacheUnchanged

ProcessStageStatistics(msg) ==
    /\ ~aborted
    /\ LET r == processStageStatistics(model, msg)
       IN  \/ r.failed /\ Crash
           \/ /\ setModel(r.t)
              /\ emitted' = r.emitted
              /\ UNCHANGED <<aborted, renamed>>
              /\ cacheUnchanged

\* inputs of the feeds and of the observer
MaxBatch == 2
StageIds == {1, 2}
ParentIds == {0, 1}
Looks == { <<"a", {}>>, <<"b", {}>>, <<"a", {"READS_START", "OTHER_BIT"}>> }
ManualNames == {"c"}
Rows == {0, 1}
Arena == 1..(Cardinality(StageIds) + 1)    \* the root and a node per stage id

StageDescriptions(ids, parents, looks) ==
    {[id |-> i, parent_id |-> p, name |-> l[1], flags |-> l[2]] :
        i \in ids, p \in parents, l \in looks}
Descriptions == SeqsUpTo(StageDescriptions(StageIds, ParentIds, Looks), MaxBatch)

StageStatistics(ids, lists) ==
    {[id |-> i, solved |-> s, failed |-> f] : i \in ids, s \in lists, f \in lists}

Traversal == \E p \in Arena, row \in Rows : Index(p, row, 0)

Observer ==
    \/ Traversal
    \/ \E n \in Arena, name \in ManualNames :
          \/ SetData(n, 0, name, "EditRole")
          \/ SetData(n, 0, name, "DisplayRole")

Next ==
    \/ Observer
    \/ \E msg \in Descriptions : ProcessStageDescriptions(msg)

Spec == Init /\ [][Next]_vars

\* the description and statistics feeds, one entry at a time, with an observer
\* that traverses the tree
MaxStats == 1
PlainLooks == { <<"a", {}>>, <<"b", {}>> }
StatDescriptions == SeqsUpTo(StageDescriptions(StageIds, ParentIds, PlainLooks), 1)
StatStageIds == {1}
StatLists == {<<>>} \cup {<<i>> : i \in StoreIds}
Statistics == SeqsUpTo(StageStatistics(StatStageIds, StatLists), MaxStats)

NextStats ==
    \/ Traversal
    \/ \E msg \in StatDescriptions : ProcessStageDescriptions(msg)
    \/ \E msg \in Statistics : ProcessStageStatistics(msg)

SpecStats == Init /\ [][NextStats]_vars

\* the description feed with arbitrary ids and parents: the reserved id 0 and
\* re-descriptions of a stage under another parent included
TreeIds == {0, 1, 2}
TreeDescriptions == SeqsUpTo(StageDescriptions(TreeIds, ParentIds, PlainLooks), MaxBatch)

NextTree ==
    \/ Traversal
    \/ \E msg \in TreeDescriptions : ProcessStageDescriptions(msg)

SpecTree == Init /\ [][NextTree]_vars

(***************************************************************************)
(* The solution cache: full solutions pushed by the server or fetched on   *)
(* demand, for a task of two stages whose statistics list solved ids.      *)
(***************************************************************************)
MaxObjects == 3      \* DisplaySolution objects constructed in a run

setCache(r) ==
    /\ r.allocated <= MaxObjects
    /\ setModel(r.t)
    /\ id_to_solution_' = r.cache
    /\ allocated' = r.allocated
    /\ emitted' = r.emitted
    /\ UNCHANGED <<get_solution_client_, aborted, renamed>>

SetSolutionClient ==
    /\ ~aborted
    /\ get_solution_client_ = "null"
    /\ get_solution_client_' = "set"
    /\ emitted' = <<>>
    /\ UNCHANGED <<nodes, id_to_stage_, flags_, id_to_solution_, allocated, aborted, renamed>>

ProcessSolutionMessage(msg) ==
    /\ ~aborted
    /\ setCache(processSolutionMessage(model, id_to_solution_, allocated, msg))

\* the solution id of a row of some stage's view
shownIds == UNION {Range(nodes[n].solutions_.sorted_) : n \in DOMAIN nodes}

GetSolution(id, called, response) ==
    /\ ~aborted
    /\ id \in shownIds
    /\ setCache(getSolution(model, id_to_solution_, allocated, get_solution_client_,
                            id, called, response))

SubSolutions ==
    {[stage_id |-> st, id |-> i, cost |-> MaxCost] : st \in StageIds, i \in {0} \cup StoreIds}
SubTrajectories ==
    {[id |-> i, stage_id |-> 2, cost |-> MaxCost, name |-> "a"] : i \in {0} \cup StoreIds}
Messages ==
    [sub_solution : SeqsUpTo(SubSolutions, 1), sub_trajectory : SeqsUpTo(SubTrajectories, 2)]

CacheDescriptions ==
    { << [id |-> 1, parent_id |-> 0, name |-> "a", flags |-> {}],
         [id |-> 2, parent_id |-> 1, name |-> "a", flags |-> {}] >> }
CacheStatistics ==
    { << [id |-> st, solved |-> <<i>>, failed |-> <<>>] >> : st \in StageIds, i \in StoreIds }

NextCache ==
    \/ \E msg \in CacheDescriptions : ProcessStageDescriptions(msg)
    \/ \E msg \in CacheStatistics : ProcessStageStatistics(msg)
    \/ SetSolutionClient
    \/ \E msg \in Messages : ProcessSolutionMessage(msg)
    \/ \E id \in StoreIds, called \in BOOLEAN, response \in Messages :
          GetSolution(id, called, response)

SpecCache == Init /\ [][NextCache]_vars

(***************************************************************************)
(* Properties of RemoteSolutionModel                                       *)
(***************************************************************************)
item(m, id) == m.data_[findById(m.data_, id)]
hasItem(m, id) == findById(m.data_, id) # 0
DefaultCosts == {NaN, Infinity}
rebuildSignals == << Signal("layoutAboutToBeChanged", 0, -1, 0, 0),
                     Signal("changePersistentIndexList", 0, -1, 0, 0),
                     Signal("layoutChanged", 0, -1, 0, 0) >>

sameCreationRanks(m, n) ==
    \A d \in Range(m.data_) : hasItem(n, d.id) /\ item(n, d.id).creation_rank = d.creation_rank

\* C5: the creation_rank of a stored record is the same after any further
\* processSolutionIDs, setData or sort call on the store, whatever happens to
\* cost_rank, cost and name.
C5_CreationRankStable ==
    /\ \A ids \in IdLists(StoreIds), c \in DefaultCosts :
          sameCreationRanks(store, processSolutionIDs(store, ids, c).s)
    /\ \A id \in StoreIds, c \in {MaxCost, Infinity}, n \in Range(SolNames) :
          sameCreationRanks(store, setData(store, id, c, n).s)
    /\ \A column \in SortColumns, order \in SortOrders :
          sameCreationRanks(store, sort(store, column, order).s)

\* a record created first whose cost rank, cost and name have all changed
C5_Witness ==
    \E d \in Range(store.data_) :
        /\ d.creation_rank = 1 /\ d.cost_rank = 2
        /\ d.cost = MaxCost /\ d.name = "a"
        /\ store.sort_column_ = 2

scenarioFirst == processSolutionIDs(store, <<30, 10, 20>>, NaN).s
scenarioSecond == processSolutionIDs(scenarioFirst, <<10, 20, 30>>, NaN).s
ranks(m, field) == [i \in DOMAIN m.data_ |-> << m.data_[i].id, m.data_[i][field] >>]

sortKey(m, d) == IF m.sort_column_ = 1 THEN d.cost_rank ELSE NameIndex(d.name)

\* C7: after sortInternal with sort column cost or name, of two visible
\* records with equal sort key the one with the smaller creation_rank is at
\* the smaller row, in ascending and in descending order.
C7_TiesByCreationRank ==
    LET n == sortInternal(store).s
    IN  n.sort_column_ \in {1, 2} =>
           \A i, j \in DOMAIN n.sorted_ :
              (/\ sortKey(n, item(n, n.sorted_[i])) = sortKey(n, item(n, n.sorted_[j]))
               /\ item(n, n.sorted_[i]).creation_rank < item(n, n.sorted_[j]).creation_rank)
              => i < j

\* the persistent indexes of m after a rebuild into n still point at their record
handlesFollow(m, n) ==
    \A h \in DOMAIN m.persistent :
        m.persistent[h].row >= 0 =>
           LET X == m.sorted_[m.persistent[h].row + 1]
               row == n.persistent[h].row
           IN  /\ n.persistent[h].column = m.persistent[h].column
               /\ IF X \in Range(n.sorted_)
                  THEN validIndex(n, row) /\ n.sorted_[row + 1] = X
                  ELSE row = -1

\* C8: a rebuild of the view (by sort or by processSolutionIDs) leaves every
\* persistent index that pointed at record X on the row X has in the new view,
\* or invalid (row -1) when X is not in the new view; the remap is done between
\* layoutAboutToBeChanged and layoutChanged.
C8_HandleFidelity ==
    /\ \A ids \in IdLists(StoreIds), c \in DefaultCosts :
          LET r == processSolutionIDs(store, ids, c)
          IN  ~r.failed => handlesFollow(store, r.s) /\ r.emitted = rebuildSignals
    /\ \A column \in SortColumns, order \in SortOrders :
          LET r == sort(store, column, order)
          IN  /\ handlesFollow(store, r.s)
              /\ r.s # store => r.emitted = rebuildSignals

\* a rebuild has just invalidated a persistent index whose record became hidden,
\* and a persistent index sits on a row its record was moved to
C8_Witness ==
    /\ emitted = rebuildSignals
    /\ Len(store.persistent) = 1
    /\ \/ store.persistent[1].row = -1
       \/ /\ store.persistent[1].row = 1
          /\ store.sort_order_ = "DescendingOrder"
          /\ Len(store.sorted_) = 2

\* C9: a record with cost NaN is visible for every ceiling, a record with
\* finite cost iff cost < ceiling, and a record with infinite cost (a failed
\* solution) iff the ceiling is +Infinity, in which case it is in the view
\* after the rebuild.
C9_VisibilityLaw ==
    \A d \in Range(store.data_) :
        /\ isnan(d.cost) => isVisible(store, d)
        /\ (~isnan(d.cost) /\ ~isinf(d.cost)) =>
              (isVisible(store, d) <=> d.cost < store.max_cost_)
        /\ isinf(d.cost) =>
              /\ isVisible(store, d) <=> isinf(store.max_cost_)
              /\ isinf(store.max_cost_) => d.id \in Range(sortInternal(store).s.sorted_)

(***************************************************************************)
(* Properties of RemoteTaskModel                                           *)
(***************************************************************************)
treeSignals == {"dataChanged", "rowsAboutToBeInserted", "rowsInserted"}
count(signals, s) == Cardinality({i \in DOMAIN signals : signals[i] = s})

\* C1: once an observer has renamed a node through setData(index, value,
\* EditRole), no processStageDescriptions batch changes the node's name,
\* whatever name the batch supplies for its id.
C1_RenameSticky ==
    \A msg \in Descriptions :
        \A n \in renamed :
            processStageDescriptions(model, msg).t.nodes[n].name_ = nodes[n].name_

\* a renamed node keeps the manual name although a later description of its
\* stage (carrying a server name and other flags) has just been applied to it
C1_Witness ==
    \E n \in renamed :
        /\ n # root_
        /\ nodes[n].name_ \in ManualNames
        /\ emitted = << Signal("dataChanged", n, rowOf(model, n), 0, 2) >>

\* every tree notification among the signals that names a node (its index is
\* valid) names one that was visited in t
gated(t, signals) ==
    \A i \in DOMAIN signals :
        (signals[i].sig \in treeSignals /\ signals[i].node # nullptr) =>
            /\ signals[i].node \in DOMAIN t.nodes
            /\ wasVisited(t, signals[i].node)

\* C2 as stated: no processStageDescriptions or processStageStatistics call
\* emits a data-changed notification for a node, or a row insertion under a
\* parent, that was not traversed (visited) before the update was applied.
C2_VisitedGating ==
    /\ \A msg \in StatDescriptions : gated(model, processStageDescriptions(model, msg).emitted)
    /\ \A msg \in Statistics : gated(model, processStageStatistics(model, msg).emitted)

\* C2 amended: no processStageStatistics call and no processStageDescriptions
\* call with a non-empty batch emits a data-changed notification for a node, or
\* a row insertion under a parent, whose visited flag was not set before the
\* update. (An empty batch always notifies on row 0 of the root, visited or
\* not, and sets the visited flag of that child itself.)
C2_VisitedGatingNonEmpty ==
    /\ \A msg \in StatDescriptions :
          msg # <<>> => gated(model, processStageDescriptions(model, msg).emitted)
    /\ \A msg \in Statistics : gated(model, processStageStatistics(model, msg).emitted)

\* a statistics update has just notified on a visited node, while another node
\* that was updated too has never been visited
C2_Witness ==
    \E n, u \in DOMAIN nodes :
        /\ n # root_ /\ u # root_
        /\ wasVisited(model, n) /\ ~wasVisited(model, u)
        /\ nodes[u].name_ = "b"
        /\ Signal("dataChanged", n, rowOf(model, n), 1, 2) \in Range(emitted)

\* C3: an in-place change to a visited node's name or interface flags by a
\* description, and a new solved or failed solution id arriving for a visited
\* node through statistics, each produce exactly one data-changed notification
\* for the node, over columns 0..2 and 1..2.
C3_ChangeNotifiesOnce ==
    /\ \A msg \in StatDescriptions :
          LET r == processStageDescriptions(model, msg)
          IN  \A n \in DOMAIN nodes :
                 (/\ wasVisited(model, n)
                  /\ \/ r.t.nodes[n].name_ # nodes[n].name_
                     \/ r.t.nodes[n].interface_flags_ # nodes[n].interface_flags_)
                 => count(r.emitted, Signal("dataChanged", n, rowOf(model, n), 0, 2)) = 1
    /\ \A msg \in Statistics :
          LET r == processStageStatistics(model, msg)
          IN  \A n \in DOMAIN nodes :
                 (/\ wasVisited(model, n)
                  /\ Len(msg) = 1
                  /\ ~r.failed
                  /\ Len(r.t.nodes[n].solutions_.data_) > Len(nodes[n].solutions_.data_))
                 => count(r.emitted, Signal("dataChanged", n, rowOf(model, n), 1, 2)) = 1

\* every entry of the batch finds its parent registered when it is reached
RECURSIVE parentsKnown(_, _)
parentsKnown(t, msg) ==
    \/ msg = <<>>
    \/ /\ Head(msg).parent_id \in DOMAIN t.id_to_stage_
       /\ parentsKnown(describeStage([t |-> t, emitted |-> <<>>, failed |-> FALSE],
                                     Head(msg)).t, Tail(msg))

\* the entries of the batch that describe the same id agree on name and flags
consistent(msg) ==
    \A i, j \in DOMAIN msg :
        msg[i].id = msg[j].id => msg[i].name = msg[j].name /\ msg[i].flags = msg[j].flags

secondApplication(msg) ==
    processStageDescriptions(processStageDescriptions(model, msg).t, msg)

\* C4 as stated: for every batch, the empty one and those that mention an id
\* twice included, applying the batch a second time right after the first
\* emits nothing and leaves the model as the first application left it.
C4_Idempotent ==
    \A msg \in Descriptions :
        /\ \A i \in DOMAIN secondApplication(msg).emitted :
              secondApplication(msg).emitted[i].node = nullptr
        /\ secondApplication(msg).t = processStageDescriptions(model, msg).t

\* C4 amended: for every non-empty batch whose entries for the same id agree
\* on name and flags and in which no entry is skipped for an unknown parent,
\* applying the batch a second time right after the first emits nothing and
\* leaves the model as the first application left it.
C4_IdempotentWellFormed ==
    \A msg \in Descriptions :
        (msg # <<>> /\ consistent(msg) /\ parentsKnown(model, msg)) =>
            /\ secondApplication(msg).emitted = <<>>
            /\ secondApplication(msg).t = processStageDescriptions(model, msg).t

\* a batch of two entries whose first application inserts a row and notifies
\* a change on visited nodes, and whose second application is silent
C4_Witness ==
    \E msg \in Descriptions :
        /\ Len(msg) = 2 /\ consistent(msg) /\ parentsKnown(model, msg)
        /\ \E i, j \in DOMAIN processStageDescriptions(model, msg).emitted :
              /\ processStageDescriptions(model, msg).emitted[i].sig = "rowsInserted"
              /\ processStageDescriptions(model, msg).emitted[j].sig = "dataChanged"
        /\ secondApplication(msg).emitted = <<>>
        /\ emitted # <<>>

(***************************************************************************)
(* Properties of the solution cache                                        *)
(***************************************************************************)
keepsCached(r) ==
    r.allocated <= MaxObjects =>
        \A id \in DOMAIN id_to_solution_ :
            id \in DOMAIN r.cache /\ r.cache[id] = id_to_solution_[id]

\* C10: the cache holds one object per solution id, and no
\* processSolutionMessage or getSolution call replaces the object cached for an
\* id: a later message carrying the id, as top-level sub-solution id or as
\* sub-trajectory id, leaves the entry as it was.
C10_CachedNeverReplaced ==
    /\ \A msg \in Messages :
          keepsCached(processSolutionMessage(model, id_to_solution_, allocated, msg))
    /\ \A id \in shownIds, called \in BOOLEAN, response \in Messages :
          keepsCached(getSolution(model, id_to_solution_, allocated, get_solution_client_,
                                  id, called, response))

(***************************************************************************)
(* Properties of the feeds: unknown references                             *)
(***************************************************************************)
\* batches that refer to stages the registry may not hold yet
SkipDescriptions == SeqsUpTo(StageDescriptions(StageIds, ParentIds, PlainLooks), MaxBatch)
SkipStatLists == {<<>>, <<20>>}
SkipStatistics ==
    SeqsUpTo({[id |-> i, solved |-> s, failed |-> f] :
                 i \in StageIds, s \in StatLists, f \in SkipStatLists}, 2)

\* the entries of a description batch that are not skipped: those whose parent
\* is registered when the loop reaches them
RECURSIVE keptDescriptions(_, _)
keptDescriptions(t, msg) ==
    IF msg = <<>> THEN <<>>
    ELSE IF Head(msg).parent_id \notin DOMAIN t.id_to_stage_
         THEN keptDescriptions(t, Tail(msg))
         ELSE <<Head(msg)>> \o
              keptDescriptions(describeStage([t |-> t, emitted |-> <<>>, failed |-> FALSE],
                                             Head(msg)).t, Tail(msg))

RECURSIVE keptStatistics(_, _)
keptStatistics(t, msg) ==
    IF msg = <<>> THEN <<>>
    ELSE (IF Head(msg).id \in DOMAIN t.id_to_stage_ THEN <<Head(msg)>> ELSE <<>>) \o
         keptStatistics(t, Tail(msg))

\* C11: a description entry whose parent_id is not registered and a statistics
\* entry whose id is not registered change nothing (no node, no registry entry,
\* no record, no notification), and the other entries of the batch are
\* processed as if the skipped entry were absent; a child listed before its
\* parent in one batch is skipped while the parent is created.
C11_UnknownSkipped ==
    /\ \A msg \in SkipDescriptions :
          LET r == processStageDescriptions(model, msg)
              kept == keptDescriptions(model, msg)
          IN  msg # <<>> =>
                 /\ kept = <<>> => (r.t = model /\ r.emitted = <<>> /\ ~r.failed)
                 /\ kept # <<>> => r = processStageDescriptions(model, kept)
                 /\ (/\ Len(msg) = 2
                     /\ msg[1].parent_id \notin DOMAIN id_to_stage_
                     /\ msg[2].id = msg[1].parent_id
                     /\ msg[1].id # msg[2].id
                     /\ msg[1].id \notin DOMAIN id_to_stage_
                     /\ msg[2].parent_id \in DOMAIN id_to_stage_)
                    => /\ DOMAIN r.t.id_to_stage_ = DOMAIN id_to_stage_ \cup {msg[2].id}
                       /\ Len(r.t.nodes) = Len(nodes) + 1
    /\ \A msg \in SkipStatistics :
          LET r == processStageStatistics(model, msg)
              kept == keptStatistics(model, msg)
          IN  /\ kept = <<>> => (r.t = model /\ r.emitted = <<>> /\ ~r.failed)
              /\ r = processStageStatistics(model, kept)

\* stage 1 is registered, visited and has a record, stage 2 is unknown, and a
\* statistics batch has just notified on stage 1: a batch that also names
\* stage 2, or a child of stage 2, has an entry to skip
C11_Witness ==
    /\ 1 \in DOMAIN id_to_stage_ /\ 2 \notin DOMAIN id_to_stage_
    /\ LET n == id_to_stage_[1]
       IN  /\ wasVisited(model, n)
           /\ nodes[n].solutions_.data_ # <<>>
           /\ emitted # <<>>
           /\ emitted[Len(emitted)] = Signal("dataChanged", n, rowOf(model, n), 1, 2)

(***************************************************************************)
(* Properties of the destroyed marker                                      *)
(***************************************************************************)
isDestroyed(t) == "IS_DESTROYED" \in t.flags_

\* n keeps its place in the tree, its name, its interface flags and its records
sameContent(a, b) ==
    /\ a.parent_ = b.parent_ /\ a.children_ = b.children_
    /\ a.name_ = b.name_ /\ a.interface_flags_ = b.interface_flags_
    /\ a.solutions_ = b.solutions_

\* C12: processStageDescriptions with an empty batch sets IS_DESTROYED and
\* emits one dataChanged over columns 0..2 of row 0 under the root (with the
\* invalid index of the root itself when the root has no row), and removes no
\* node, registry entry or solution record; a non-empty batch leaves the flags
\* as they are; and when the flag is set it is still set after every further
\* description, statistics or solution message and every observer call.
C12_DestroyedMarker ==
    /\ LET r == processStageDescriptions(model, <<>>)
       IN  /\ isDestroyed(r.t) /\ ~r.failed
           /\ r.emitted = IF nodes[root_].children_ # <<>>
                          THEN << Signal("dataChanged", nodes[root_].children_[1], 0, 0, 2) >>
                          ELSE << Signal("dataChanged", nullptr, -1, 0, 0) >>
           /\ r.t.id_to_stage_ = id_to_stage_
           /\ DOMAIN r.t.nodes = DOMAIN nodes
           /\ \A n \in DOMAIN nodes : sameContent(r.t.nodes[n], nodes[n])
    /\ \A msg \in StatDescriptions :
          msg # <<>> => processStageDescriptions(model, msg).t.flags_ = flags_
    /\ isDestroyed(model) =>
          /\ \A msg \in StatDescriptions : isDestroyed(processStageDescriptions(model, msg).t)
          /\ \A msg \in Statistics : isDestroyed(processStageStatistics(model, msg).t)
          /\ \A msg \in Messages :
                isDestroyed(processSolutionMessage(model, id_to_solution_, allocated, msg).t)
          /\ \A p \in DOMAIN nodes, row \in Rows : isDestroyed(index(model, row, 0, p).t)
          /\ \A n \in DOMAIN nodes, name \in ManualNames :
                isDestroyed(renameNode(model, n, 0, name, "EditRole").t)

\* the model was marked destroyed with its tree and records in place, and a
\* statistics update that came later has just been applied to it
C12_Witness ==
    /\ isDestroyed(model)
    /\ 1 \in DOMAIN id_to_stage_
    /\ LET n == id_to_stage_[1]
       IN  /\ Len(nodes[n].solutions_.data_) = 2
           /\ emitted # <<>>
           /\ emitted[Len(emitted)] = Signal("dataChanged", n, rowOf(model, n), 1, 2)

(***************************************************************************)
(* Properties of the insertion of rows                                     *)
(***************************************************************************)
\* the observer has traversed p: it holds an index of p that index() handed
\* out, or, for the root (whose index is the invalid one), it has asked the
\* root for one of its rows
traversed(t, p) ==
    \/ wasVisited(t, p)
    \/ p = root_ /\ \E c \in Range(t.nodes[root_].children_) : wasVisited(t, c)

rowSignals == {"rowsAboutToBeInserted", "rowsInserted"}

\* C13: when processStageDescriptions creates a child under a parent the
\* observer has traversed (the root included), rowsAboutToBeInserted and then
\* rowsInserted are emitted for row = the parent's child count before the
\* insertion, next to each other; under a parent that was never traversed the
\* insertion emits no row notification.
C13_TwoPhaseInsertion ==
    \A s \in StageDescriptions(StageIds, ParentIds, Looks) :
        (s.parent_id \in DOMAIN id_to_stage_ /\ s.id \notin DOMAIN id_to_stage_) =>
            LET parent == id_to_stage_[s.parent_id]
                row == Len(nodes[parent].children_)
                r == processStageDescriptions(model, <<s>>)
            IN  /\ r.t.nodes[parent].children_ = Append(nodes[parent].children_, Len(nodes) + 1)
                /\ IF traversed(model, parent)
                   THEN /\ Len(r.emitted) >= 2
                        /\ r.emitted[1] = Signal("rowsAboutToBeInserted", parent, row, 0, 0)
                        /\ r.emitted[2] = Signal("rowsInserted", parent, row, 0, 0)
                   ELSE \A i \in DOMAIN r.emitted : r.emitted[i].sig \notin rowSignals

(***************************************************************************)
(* Properties of the statistics feed                                       *)
(***************************************************************************)
\* C14: for a statistics entry of a known stage, processStageStatistics feeds
\* the solved ids into the stage's store with default cost NaN and the failed
\* ids with default cost +Infinity: after a call that completes every id of
\* either list has a record in the store, the new ones with the default cost
\* of their list, whether or not the solved list reported a change.
C14_BothListsFed ==
    \A msg \in Statistics :
        (Len(msg) = 1 /\ msg[1].id \in DOMAIN id_to_stage_) =>
            LET n == id_to_stage_[msg[1].id]
                r == processStageStatistics(model, msg)
                before == nodes[n].solutions_
                after == r.t.nodes[n].solutions_
            IN  ~r.failed =>
                   /\ \A id \in Range(msg[1].solved) :
                         /\ hasItem(after, id)
                         /\ ~hasItem(before, id) => isnan(item(after, id).cost)
                   /\ \A id \in Range(msg[1].failed) :
                         /\ hasItem(after, id)
                         /\ (~hasItem(before, id) /\ id \notin Range(msg[1].solved))
                               => isinf(item(after, id).cost)

(***************************************************************************)
(* Properties of processSolutionIDs                                        *)
(***************************************************************************)
ascendingIds(m) ==
    \A i, j \in DOMAIN m.data_ : i < j => m.data_[i].id < m.data_[j].id

\* C15: for any id list, a never-seen id that is not beyond the largest stored
\* id included, processSolutionIDs completes without assertion failure, every
\* never-seen id of the list gets a new record, a known id has only its
\* cost_rank changed, and the records stay in strictly ascending id order.
C15_OutOfOrderByLookup ==
    \A ids \in IdLists(StoreIds), c \in DefaultCosts :
        LET r == processSolutionIDs(store, ids, c)
        IN  /\ ~r.failed
            /\ \A id \in Range(ids) : hasItem(r.s, id)
            /\ \A d \in Range(store.data_) :
                  /\ hasItem(r.s, d.id)
                  /\ [item(r.s, d.id) EXCEPT !.cost_rank = d.cost_rank] = d
            /\ ascendingIds(r.s)

(***************************************************************************)
(* Properties of the tree and the identity registry                        *)
(***************************************************************************)
idsOf(t, n) == {id \in DOMAIN t.id_to_stage_ : t.id_to_stage_[id] = n}
occurrences(s, n) == Cardinality({i \in DOMAIN s : s[i] = n})

\* C16: id 0 resolves to the root; every registry entry refers to a node of
\* the tree; every non-root node is registered under exactly one id, the one
\* whose description created it, and no description batch removes or redirects
\* a registry entry (a new entry refers to a new node); each non-root node is
\* exactly once in the child list of the node its parent link names and in no
\* other child list.
C16_TreeRegistry ==
    /\ idsOf(model, root_) = {0}
    /\ nodes[root_].parent_ = nullptr
    /\ \A id \in DOMAIN id_to_stage_ : id_to_stage_[id] \in DOMAIN nodes
    /\ \A n \in DOMAIN nodes \ {root_} :
          /\ Cardinality(idsOf(model, n)) = 1
          /\ nodes[n].parent_ \in DOMAIN nodes
          /\ \A p \in DOMAIN nodes :
                occurrences(nodes[p].children_, n) = IF p = nodes[n].parent_ THEN 1 ELSE 0
    /\ \A p \in DOMAIN nodes : occurrences(nodes[p].children_, root_) = 0
    /\ \A msg \in TreeDescriptions :
          LET r == processStageDescriptions(model, msg)
          IN  /\ \A id \in DOMAIN id_to_stage_ :
                    id \in DOMAIN r.t.id_to_stage_ /\ r.t.id_to_stage_[id] = id_to_stage_[id]
              /\ \A id \in DOMAIN r.t.id_to_stage_ \ DOMAIN id_to_stage_ :
                    /\ r.t.id_to_stage_[id] \notin DOMAIN nodes
                    /\ \E i \in DOMAIN msg : msg[i].id = id

\* stage 1 under the root and stage 2 under stage 1, both visited, and stage 2
\* has been described again since it was created
C16_Witness ==
    /\ id_to_stage_ = [id \in TreeIds |-> id + 1]
    /\ nodes[2].parent_ = root_ /\ nodes[3].parent_ = 2
    /\ wasVisited(model, 2) /\ wasVisited(model, 3)
    /\ nodes[3].name_ = "b"
    /\ emitted = << Signal("dataChanged", 3, 0, 0, 2) >>

(***************************************************************************)
(* Properties of the sorted view                                           *)
(***************************************************************************)
\* a precedes b in the order the view is to have: by the active sort key in
\* the active direction, ties by creation_rank; by position in data_ when no
\* sort column is active
precedes(m, a, b) ==
    IF m.sort_column_ \in {1, 2}
    THEN \/ /\ m.sort_order_ = "AscendingOrder" /\ sortKey(m, a) < sortKey(m, b)
         \/ /\ m.sort_order_ = "DescendingOrder" /\ sortKey(m, a) > sortKey(m, b)
         \/ /\ sortKey(m, a) = sortKey(m, b) /\ a.creation_rank < b.creation_rank
    ELSE findById(m.data_, a.id) < findById(m.data_, b.id)

viewConsistent(m) ==
    /\ Range(m.sorted_) = {d.id : d \in {e \in Range(m.data_) : isVisible(m, e)}}
    /\ NoDup(m.sorted_)
    /\ \A i, j \in DOMAIN m.sorted_ :
          i < j => precedes(m, item(m, m.sorted_[i]), item(m, m.sorted_[j]))

\* C17: after every processSolutionIDs, setData and sort call that completes,
\* the sorted view holds exactly the visible records, each once, ordered by
\* the active sort key (ties by creation_rank), or in insertion order when no
\* sort column is active; also after a setData that changes a cost or, while
\* sorting by name, a name.
C17_ViewConsistent ==
    /\ \A ids \in IdLists(StoreIds), c \in DefaultCosts :
          LET r == processSolutionIDs(store, ids, c)
          IN  ~r.failed => viewConsistent(r.s)
    /\ \A id \in StoreIds, c \in {MaxCost, Infinity}, n \in Range(SolNames) :
          viewConsistent(setData(store, id, c, n).s)
    /\ \A column \in SortColumns, order \in SortOrders :
          viewConsistent(sort(store, column, order).s)

(***************************************************************************)
(* Properties of the sub trajectories                                      *)
(***************************************************************************)
\* C18: for a top-level message, every sub_trajectory entry with nonzero id
\* that is not cached yet gets an object cached under its id that is the slice
\* of the message's solution at the entry's own position in
\* msg.sub_trajectory (0-based), and its cost and name are written to the
\* record of that id in the store of the entry's stage; entries with id 0 and
\* ids cached before are left alone.
C18_SliceAtOwnIndex ==
    \A msg \in Messages :
        LET r == processSolutionMessage(model, id_to_solution_, allocated, msg)
            top == Head(msg.sub_solution).id
            trs == msg.sub_trajectory
        IN  (isTopLevel(msg) /\ r.allocated <= MaxObjects) =>
               /\ 0 \notin DOMAIN r.cache
               /\ \A k \in DOMAIN trs :
                     LET tr == trs[k]
                     IN  (/\ tr.id # 0 /\ tr.id # top
                          /\ tr.id \notin DOMAIN id_to_solution_
                          /\ \A j \in 1..(k - 1) : trs[j].id # tr.id)
                         => /\ r.cache[tr.id].parent = allocated + 1
                            /\ r.cache[tr.id].index = k - 1
                            /\ tr.stage_id \in DOMAIN id_to_stage_ =>
                                  LET m == r.t.nodes[id_to_stage_[tr.stage_id]].solutions_
                                  IN  hasItem(m, tr.id) =>
                                         /\ item(m, tr.id).cost = tr.cost
                                         /\ item(m, tr.id).name = tr.name
               /\ \A id \in DOMAIN id_to_solution_ \ {top} : r.cache[id] = id_to_solution_[id]

(***************************************************************************)
(* Properties of getSolution                                               *)
(***************************************************************************)
\* the response of the service to a request for the solution id shown in a
\* row of the view of some stage: the solution of that stage with that id
answers(response, id) ==
    /\ response.sub_solution # <<>>
    /\ Head(response.sub_solution).id = id
    /\ Head(response.sub_solution).stage_id \in DOMAIN id_to_stage_
    /\ id \in Range(nodes[id_to_stage_[Head(response.sub_solution).stage_id]].solutions_.sorted_)

\* C19: when getSolution for a solution id misses the cache and the service
\* call succeeds, the object built from the response is cached under that id,
\* and the next getSolution for the id returns it without calling the service;
\* when there is no service client or the call fails, getSolution returns none
\* and leaves the cache and the stores as they are.
C19_FetchOnce ==
    \A id \in shownIds \ DOMAIN id_to_solution_ :
        /\ \A response \in Messages :
              LET r == getSolution(model, id_to_solution_, allocated, get_solution_client_,
                                   id, TRUE, response)
                  again == getSolution(r.t, r.cache, r.allocated, get_solution_client_,
                                       id, TRUE, response)
              IN  (/\ get_solution_client_ = "set"
                   /\ answers(response, id)
                   /\ r.allocated <= MaxObjects)
                  => /\ r.fetched /\ r.ret # NoSolution
                     /\ id \in DOMAIN r.cache /\ r.cache[id] = r.ret
                     /\ ~again.fetched /\ again.ret = r.ret
        /\ \A called \in BOOLEAN, response \in Messages :
              LET r == getSolution(model, id_to_solution_, allocated, get_solution_client_,
                                   id, called, response)
              IN  (get_solution_client_ = "null" \/ ~called)
                  => /\ r.ret = NoSolution
                     /\ r.cache = id_to_solution_ /\ r.t = model /\ r.emitted = <<>>

(***************************************************************************)
(* Properties of the parent links                                          *)
(***************************************************************************)
\* C20: for every description batch whose entries all find their parent, an
\* entry with the reserved id 0 or one that describes an existing id under
\* another known parent included, Q_ASSERT(n->parent_ == parent) holds for
\* every entry, and no node's parent link is changed.
C20_ParentAssertionHolds ==
    \A msg \in TreeDescriptions :
        LET r == processStageDescriptions(model, msg)
        IN  parentsKnown(model, msg) =>
               /\ ~r.failed
               /\ \A n \in DOMAIN nodes : r.t.nodes[n].parent_ = nodes[n].parent_
====
